---- MODULE Spec2Model ----
(***************************************************************************)
(* Model of magnetar_data: the orbital stepping of OrbitalParameters       *)
(* (orbital.rs), its recursive broadcast over the Object tree              *)
(* (celestial.rs), and the YAML loader (yaml_parser.rs), driven as the     *)
(* orbit visualiser drives them (load once, then step per entered          *)
(* timestep).                                                              *)
(***************************************************************************)
EXTENDS Integers, Sequences, FiniteSets, TLC

VARIABLES
    pc,         \* visualiser main: "start", "loaded", or "failed" (expect panicked)
    doc,        \* the file given to load_yaml
    root,       \* the (name, value) pair load_yaml hands to parse_object, if any
    result,     \* what load_yaml returned
    system,     \* main's `system`, the tree that step_forward mutates in place
    prev,       \* `system` as it was when the last Object::step_forward was entered
    time_step,  \* the duration of the last Object::step_forward
    calls,      \* the OrbitalParameters::step_forward calls that step made, in order
    params0,    \* an OrbitalParameters value as constructed
    params,     \* the same value after the calls in `steps`
    steps       \* the durations of the calls applied to `params`, in order

vars == <<pc, doc, root, result, system, prev, time_step, calls, params0, params, steps>>

treeVars == <<pc, doc, root, result, system, prev, time_step, calls>>
orbVars == <<params0, params, steps>>

----------------------------------------------------------------------------
(* Bounds of the model.                                                    *)

\* Significand width of the model's floating-point numbers (f64 has 53).
MantBits == 12
\* Longest timestep, in whole seconds.
MaxSecs == 2
\* Most step_forward calls applied to one OrbitalParameters value.
MaxCalls == 2

Durations == 0..MaxSecs

\* The value of a variable that holds nothing yet.
NoTree == [none |-> TRUE]

----------------------------------------------------------------------------
(* f64: a float is NaN or a finite value.  The finite values are the       *)
(* integers with a significand of MantBits bits; every arithmetic result   *)
(* is rounded to the nearest of them, ties to even.  The model carries no  *)
(* infinities and no fractions.                                            *)

NaN == [nan |-> TRUE, v |-> 0]
F(n) == [nan |-> FALSE, v |-> n]

Abs(x) == IF x < 0 THEN -x ELSE x

RECURSIVE Pow2(_)
Pow2(n) == IF n = 0 THEN 1 ELSE 2 * Pow2(n - 1)

Mant == Pow2(MantBits)

RECURSIVE Ulp(_, _)
Ulp(a, u) == IF a < Mant * u THEN u ELSE Ulp(a, 2 * u)

Round(x) ==
    LET a == Abs(x)
        u == Ulp(a, 1)
        q == a \div u
        r == a % u
        up == (2 * r > u) \/ (2 * r = u /\ q % 2 = 1)
        m == (IF up THEN q + 1 ELSE q) * u
    IN  IF x < 0 THEN -m ELSE m

FAdd(a, b) == IF a.nan \/ b.nan THEN NaN ELSE F(Round(a.v + b.v))

FMul(a, b) == IF a.nan \/ b.nan THEN NaN ELSE F(Round(a.v * b.v))

\* a / b.  A zero divisor gives an infinity in f64; the one quotient of the
\* program feeds `% 360.0`, which turns an infinity into NaN.
FDiv(a, b) ==
    IF a.nan \/ b.nan \/ b.v = 0 THEN NaN
    ELSE LET n == Abs(a.v)
             d == Abs(b.v)
             q == n \div d
             r == n % d
             up == (2 * r > d) \/ (2 * r = d /\ q % 2 = 1)
             m == Round(IF up THEN q + 1 ELSE q)
         IN  F(IF (a.v < 0) # (b.v < 0) THEN -m ELSE m)

\* a % b of f64: the remainder of the division truncated toward zero; it has
\* the sign of a, and is exact.
FRem(a, b) ==
    IF a.nan \/ b.nan \/ b.v = 0 THEN NaN
    ELSE F(IF a.v < 0 THEN -((-a.v) % Abs(b.v)) ELSE a.v % Abs(b.v))

Sqrt(n) == CHOOSE r \in 0..n : r * r <= n /\ n < (r + 1) * (r + 1)

\* a.powf(1.5): NaN for a negative base.
powf15(a) == IF a.nan \/ a.v < 0 THEN NaN ELSE F(Round(a.v * Sqrt(a.v)))

\* Duration::as_secs_f64 of a duration of d whole seconds.
as_secs_f64(d) == F(Round(d))

----------------------------------------------------------------------------
(* orbital.rs                                                              *)

FullTurn == 360

OrbitalParameters(sma, ecc, lop, ma) ==
    [semi_major_axis |-> sma, eccentricity |-> ecc,
     longitude_of_periapsis |-> lop, mean_anomaly |-> ma]

\* Variant: the semi_major_axis == 0 short-circuit is missing.
step_forward_no_sentinel(self, d) ==
    LET time_seconds == as_secs_f64(d)
        mean_motion == FDiv(F(FullTurn), powf15(self.semi_major_axis))
        advanced == FAdd(self.mean_anomaly, FMul(mean_motion, time_seconds))
    IN  [self EXCEPT !.mean_anomaly = FRem(advanced, F(FullTurn))]

\* Variant: the mean motion is added without scaling it by the elapsed time.
step_forward_unscaled(self, d) ==
    IF ~self.semi_major_axis.nan /\ self.semi_major_axis.v = 0 THEN self
    ELSE LET mean_motion == FDiv(F(FullTurn), powf15(self.semi_major_axis))
             advanced == FAdd(self.mean_anomaly, mean_motion)
         IN  [self EXCEPT !.mean_anomaly = FRem(advanced, F(FullTurn))]

\* Variant: the advance goes to longitude_of_periapsis, the other angle.
step_forward_wrong_angle(self, d) ==
    IF ~self.semi_major_axis.nan /\ self.semi_major_axis.v = 0 THEN self
    ELSE LET time_seconds == as_secs_f64(d)
             mean_motion == FDiv(F(FullTurn), powf15(self.semi_major_axis))
             advanced == FAdd(F(self.longitude_of_periapsis),
                              FMul(mean_motion, time_seconds))
             turned == FRem(advanced, F(FullTurn))
         IN  [self EXCEPT !.longitude_of_periapsis = IF turned.nan THEN 0 ELSE turned.v]

OrbitalParameters_step_forward(self, d) ==
    IF ~self.semi_major_axis.nan /\ self.semi_major_axis.v = 0 THEN self
    ELSE LET time_seconds == as_secs_f64(d)
             mean_motion == FDiv(F(FullTurn), powf15(self.semi_major_axis))
             advanced == FAdd(self.mean_anomaly, FMul(mean_motion, time_seconds))
         IN  [self EXCEPT !.mean_anomaly = FRem(advanced, F(FullTurn))]

----------------------------------------------------------------------------
(* serde_yaml::Value as yaml_parser.rs uses it: scalars, sequences, and    *)
(* mappings that keep their entries in document order.                     *)

Num(n) == [k |-> "num", n |-> n]
Str(s) == [k |-> "str", s |-> s]
SeqV(items) == [k |-> "seq", items |-> items]
MapV(entries) == [k |-> "map", entries |-> entries]

None == [some |-> FALSE]
Some(x) == [some |-> TRUE, v |-> x]

Ok(o) == [ok |-> TRUE, obj |-> o]
Err(e) == [ok |-> FALSE, err |-> e]

\* value.get(key): the entry of a mapping under the string key, None for a
\* value that is no mapping or has no such key.
get(value, key) ==
    IF value.k # "map" THEN None
    ELSE LET hits == {i \in 1..Len(value.entries) : value.entries[i][1] = Str(key)}
         IN  IF hits = {} THEN None
             ELSE Some(value.entries[CHOOSE i \in hits : \A j \in hits : i <= j][2])

\* value.get(key).and_then(|v| v.as_f64()): a YAML number becomes the
\* nearest f64.
get_f64(value, key) ==
    LET g == get(value, key)
    IN  IF g.some /\ g.v.k = "num" THEN Some(F(Round(g.v.n))) ELSE None

\* value.get(key).and_then(|v| v.as_str())
get_str(value, key) ==
    LET g == get(value, key)
    IN  IF g.some /\ g.v.k = "str" THEN Some(g.v.s) ELSE None

----------------------------------------------------------------------------
(* yaml_parser.rs: parse_object                                            *)

U16Max == 65535

\* `lop as u16`: truncates toward zero and saturates; NaN becomes 0.
as_u16(f) ==
    IF f.nan \/ f.v < 0 THEN 0 ELSE IF f.v > U16Max THEN U16Max ELSE f.v

\* Variant: a missing mass defaults to 0 instead of failing.
required_fields_default_mass(name, value) ==
    LET obj_type == get_str(value, "type")
        mass == get_f64(value, "mass")
        radius == get_f64(value, "radius")
    IN  IF ~obj_type.some THEN Err(name \o " : Missing object type")
        ELSE IF ~radius.some THEN Err("Missing radius")
        ELSE Ok([obj_type |-> obj_type.v,
                 mass |-> IF mass.some THEN mass.v ELSE F(0),
                 radius |-> radius.v])

\* The three required fields, read in the order type, mass, radius; the
\* first one missing is the error.
required_fields(name, value) ==
    LET obj_type == get_str(value, "type")
        mass == get_f64(value, "mass")
        radius == get_f64(value, "radius")
    IN  IF ~obj_type.some THEN Err(name \o " : Missing object type")
        ELSE IF ~mass.some THEN Err("Missing mass")
        ELSE IF ~radius.some THEN Err("Missing radius")
        ELSE Ok([obj_type |-> obj_type.v, mass |-> mass.v, radius |-> radius.v])

\* Variant: each orbital field defaults to 0 on its own.
parse_orbital_params_each_default(value) ==
    LET semi_major_axis == get_f64(value, "semi-major-axis")
        eccentricity == get_f64(value, "eccentricity")
        longitude_of_periapsis == get_f64(value, "longitude-of-periapsis")
        mean_anomaly == get_f64(value, "mean-anomaly")
    IN  OrbitalParameters(
            IF semi_major_axis.some THEN semi_major_axis.v ELSE F(0),
            IF eccentricity.some THEN eccentricity.v ELSE F(0),
            IF longitude_of_periapsis.some THEN as_u16(longitude_of_periapsis.v) ELSE 0,
            IF mean_anomaly.some THEN mean_anomaly.v ELSE F(0))

\* The four orbital fields, all or nothing, with the all-zero default.
parse_orbital_params(value) ==
    LET semi_major_axis == get_f64(value, "semi-major-axis")
        eccentricity == get_f64(value, "eccentricity")
        longitude_of_periapsis == get_f64(value, "longitude-of-periapsis")
        mean_anomaly == get_f64(value, "mean-anomaly")
    IN  IF /\ semi_major_axis.some /\ eccentricity.some
           /\ longitude_of_periapsis.some /\ mean_anomaly.some
        THEN OrbitalParameters(semi_major_axis.v, eccentricity.v,
                               as_u16(longitude_of_periapsis.v), mean_anomaly.v)
        ELSE OrbitalParameters(F(0), F(0), 0, F(0))

\* The atmosphere entries with a string key and a numeric value; a HashMap,
\* modelled as the set of its (key, value) pairs.
parse_atmosphere(value) ==
    LET a == get(value, "atmosphere")
    IN  IF a.some /\ a.v.k = "map"
        THEN {<<a.v.entries[i][1].s, F(Round(a.v.entries[i][2].n))>> :
                i \in {j \in 1..Len(a.v.entries) :
                         a.v.entries[j][1].k = "str" /\ a.v.entries[j][2].k = "num"}}
        ELSE {}

ObjectTypes ==
    [STAR |-> "Star", ROCKY |-> "Rocky", JOVIAN |-> "Jovian", ICE_GIANT |-> "IceGiant"]

RECURSIVE parse_object(_, _)
RECURSIVE parse_entries(_)

\* One parentTo entry: a mapping whose first entry has a string key is
\* parsed as (name, definition); anything else, and any failure, is None.
parse_child(child) ==
    IF child.k = "map" /\ child.entries # <<>> /\ child.entries[1][1].k = "str"
    THEN LET r == parse_object(child.entries[1][1].s, child.entries[1][2])
         IN  IF r.ok THEN Some(r.obj) ELSE None
    ELSE None

\* Variant: the sequence is cut at the first entry that fails.
parse_entries_until_failure(seq) ==
    IF seq = <<>> THEN <<>>
    ELSE LET c == parse_child(Head(seq))
         IN  IF c.some THEN <<c.v>> \o parse_entries(Tail(seq)) ELSE <<>>

\* filter_map(...).collect() over the parentTo sequence.
parse_entries(seq) ==
    IF seq = <<>> THEN <<>>
    ELSE LET c == parse_child(Head(seq))
         IN  (IF c.some THEN <<c.v>> ELSE <<>>) \o parse_entries(Tail(seq))

\* children: the parsed parentTo sequence, empty when parentTo is absent or
\* no sequence.
parse_children(value) ==
    LET p == get(value, "parentTo")
    IN  IF p.some /\ p.v.k = "seq" THEN parse_entries(p.v.items) ELSE <<>>

parse_object(name, value) ==
    LET req == required_fields(name, value)
    IN  IF ~req.ok THEN req
        ELSE IF req.obj.obj_type \notin DOMAIN ObjectTypes
        THEN Err("Invalid object type")
        ELSE Ok([name |-> name,
                 object_type |-> ObjectTypes[req.obj.obj_type],
                 mass |-> req.obj.mass,
                 radius |-> req.obj.radius,
                 orbital_params |-> parse_orbital_params(value),
                 atmosphere |-> parse_atmosphere(value),
                 children |-> parse_children(value)])

----------------------------------------------------------------------------
(* yaml_parser.rs: load_yaml.  A file is unreadable, or holds a YAML       *)
(* value.  The top level is deserialized into a HashMap, whose iteration   *)
(* order is unspecified: load_yaml has one outcome per entry it may meet   *)
(* first.                                                                  *)

Outcome(r, res) == [root |-> r, result |-> res]

from_str_ok(content) ==
    /\ content.k = "map"
    /\ \A i \in 1..Len(content.entries) : content.entries[i][1].k = "str"

load_yaml(file) ==
    IF ~file.readable THEN {Outcome(None, Err("Failed to read file"))}
    ELSE IF ~from_str_ok(file.content) THEN {Outcome(None, Err("Failed to parse YAML"))}
    ELSE LET parsed_yaml == file.content
             star_system == get(parsed_yaml, "StarSystem")
         IN  IF star_system.some
             THEN IF star_system.v.k = "map" /\ star_system.v.entries # <<>>
                  THEN LET system_name == star_system.v.entries[1][1]
                           system_value == star_system.v.entries[1][2]
                           name == IF system_name.k = "str" THEN system_name.s
                                   ELSE "Unnamed"
                       IN  {Outcome(Some(<<name, system_value>>),
                                    parse_object(name, system_value))}
                  ELSE {Outcome(None, Err("Malformed StarSystem definition"))}
             ELSE IF parsed_yaml.entries = <<>>
             THEN {Outcome(None, Err("No valid object found in YAML"))}
             ELSE {Outcome(Some(<<parsed_yaml.entries[i][1].s, parsed_yaml.entries[i][2]>>),
                           parse_object(parsed_yaml.entries[i][1].s,
                                        parsed_yaml.entries[i][2])) :
                     i \in 1..Len(parsed_yaml.entries)}

----------------------------------------------------------------------------
(* celestial.rs: Object::step_forward.  Besides the stepped object, the    *)
(* model returns the OrbitalParameters::step_forward calls made, in order; *)
(* a node is named by its path of child indices from the object stepped.   *)

RECURSIVE Object_step_forward(_, _, _)
RECURSIVE step_children(_, _, _, _)

\* for child in self.children.iter_mut() { child.step_forward(time_step) },
\* from the i-th child on.
step_children(children, d, path, i) ==
    IF i > Len(children) THEN [objs |-> <<>>, calls |-> <<>>]
    ELSE LET head == Object_step_forward(children[i], d, Append(path, i))
             rest == step_children(children, d, path, i + 1)
         IN  [objs |-> <<head.obj>> \o rest.objs, calls |-> head.calls \o rest.calls]

\* Variant: the children are stepped before the object's own orbit.
Object_step_forward_children_first(self, d, path) ==
    LET own == OrbitalParameters_step_forward(self.orbital_params, d)
        kids == step_children(self.children, d, path, 1)
    IN  [obj |-> [self EXCEPT !.orbital_params = own, !.children = kids.objs],
         calls |-> kids.calls \o <<[node |-> path, time_step |-> d]>>]

Object_step_forward(self, d, path) ==
    LET own == OrbitalParameters_step_forward(self.orbital_params, d)
        kids == step_children(self.children, d, path, 1)
    IN  [obj |-> [self EXCEPT !.orbital_params = own, !.children = kids.objs],
         calls |-> <<[node |-> path, time_step |-> d]>> \o kids.calls]

----------------------------------------------------------------------------
(* The files the visualiser is run on.                                     *)

Entry(key, value) == <<Str(key), value>>

Body(type, mass, radius) ==
    <<Entry("type", Str(type)), Entry("mass", Num(mass)), Entry("radius", Num(radius))>>

Orbit(sma, ecc, lop, ma) ==
    <<Entry("semi-major-axis", Num(sma)), Entry("eccentricity", Num(ecc)),
      Entry("longitude-of-periapsis", Num(lop)), Entry("mean-anomaly", Num(ma))>>

ParentTo(items) == <<Entry("parentTo", SeqV(items))>>

Named(name, def) == MapV(<<Entry(name, def)>>)

File(content) == [readable |-> TRUE, content |-> content]

Moon == MapV(Body("ROCKY", 1, 1) \o Orbit(1, 0, 0, 350))

Earth ==
    MapV(Body("ROCKY", 5, 2) \o Orbit(4, 0, 90, 0)
         \o <<Entry("atmosphere",
                    MapV(<<Entry("N2", Num(78)), Entry("O2", Str("trace")),
                           <<Num(3), Num(1)>>>>))>>
         \o ParentTo(<<Named("Moon", Moon)>>))

Mars == MapV(Body("ROCKY", 3, 1) \o Orbit(4, 0, -90, 400))

Neptune == MapV(Body("ICE_GIANT", 9, 4) \o Orbit(4, 0, 70000, -10))

NoType == MapV(<<Entry("mass", Num(1)), Entry("radius", Num(1))>>)

Comet == MapV(Body("COMET", 1, 1) \o Orbit(4, 0, 0, 0))

\* a body whose only child fails to parse, followed by siblings
Jupiter ==
    MapV(Body("JOVIAN", 300, 7) \o Orbit(4, 0, 10, 90)
         \o ParentTo(<<Named("Io", NoType), Named("Europa", Moon)>>))

SolChildren ==
    <<Named("Earth", Earth), Named("Broken", NoType), Named("Mars", Mars)>>

Sol == MapV(Body("STAR", 1000, 10) \o ParentTo(SolChildren))

OddChildren ==
    <<Str("Ceres"), MapV(<<>>), MapV(<<<<Num(7), Moon>>>>), Named("Halley", Comet),
      Named("Jupiter", Jupiter), Named("Neptune", Neptune)>>

Files ==
    { File(MapV(<<Entry("StarSystem", MapV(<<Entry("Sol", Sol)>>))>>)),
      File(MapV(<<Entry("StarSystem", MapV(<<<<Num(1), Sol>>>>))>>)),
      File(MapV(<<Entry("Earth", Earth)>>)),
      File(MapV(<<Entry("Earth", Earth), Entry("Mars", Mars)>>)),
      File(MapV(<<Entry("Sol", MapV(<<Entry("type", Str("STAR")), Entry("radius", Num(10))>>
                                    \o ParentTo(SolChildren)))>>)),
      File(MapV(<<Entry("Sol", MapV(<<Entry("type", Str("STAR")), Entry("mass", Num(1000))>>
                                    \o ParentTo(SolChildren)))>>)),
      File(MapV(<<Entry("Sol", MapV(<<Entry("radius", Num(10))>> \o ParentTo(SolChildren)))>>)),
      File(MapV(<<Entry("Sol", MapV(<<Entry("type", Str("STAR")), Entry("mass", Str("heavy")),
                                      Entry("radius", Num(10))>>))>>)),
      File(MapV(<<Entry("StarSystem", Num(1)), Entry("Earth", Earth)>>)),
      File(MapV(<<Entry("StarSystem", MapV(<<>>))>>)),
      File(MapV(<<>>)),
      File(SeqV(<<Named("Earth", Earth)>>)),
      [readable |-> FALSE, content |-> MapV(<<>>)],
      File(MapV(<<Entry("Halley", Comet)>>)),
      File(MapV(<<Entry("Probe", MapV(Body("ROCKY", 1, 1)
                                      \o <<Entry("semi-major-axis", Num(4)),
                                           Entry("eccentricity", Num(0)),
                                           Entry("longitude-of-periapsis", Num(90))>>))>>)),
      File(MapV(<<Entry("Probe", MapV(Body("ROCKY", 1, 1)
                                      \o <<Entry("semi-major-axis", Num(4)),
                                           Entry("eccentricity", Num(0)),
                                           Entry("longitude-of-periapsis", Num(90)),
                                           Entry("mean-anomaly", Str("noon"))>>))>>)),
      File(MapV(<<Entry("Rogue", MapV(Body("ROCKY", 1, 1) \o Orbit(-1, 0, 0, 10)))>>)),
      File(MapV(<<Entry("Fixed", MapV(Body("STAR", 1, 1) \o Orbit(0, 0, 0, 400)
                                      \o ParentTo(<<Named("Far", MapV(Body("ROCKY", 1, 1)
                                                     \o Orbit(4, 0, 0, Mant)))>>)))>>)),
      File(MapV(<<Entry("Lone", MapV(Body("STAR", 1, 1)
                                     \o <<Entry("parentTo", Named("Moon", Moon))>>))>>)),
      File(MapV(<<Entry("Hub", MapV(Body("STAR", 1, 1)
                                    \o <<Entry("semi-major-axis", Num(4)),
                                         Entry("mean-anomaly", Num(45))>>
                                    \o ParentTo(OddChildren)))>>)) }

----------------------------------------------------------------------------
(* The orbit visualiser's main: load the file, panic on an error, then     *)
(* step the tree by each timestep entered.                                 *)

OrbIdle ==
    /\ params0 = OrbitalParameters(F(0), F(0), 0, F(0))
    /\ params = params0
    /\ steps = <<>>

Init ==
    /\ pc = "start"
    /\ doc \in Files
    /\ root = None
    /\ result = NoTree
    /\ system = NoTree
    /\ prev = NoTree
    /\ time_step = 0
    /\ calls = <<>>
    /\ OrbIdle

Load ==
    /\ pc = "start"
    /\ \E o \in load_yaml(doc) :
         /\ root' = o.root
         /\ result' = o.result
         /\ IF o.result.ok
            THEN pc' = "loaded" /\ system' = o.result.obj
            ELSE pc' = "failed" /\ system' = NoTree
    /\ UNCHANGED <<doc, prev, time_step, calls, orbVars>>

Step(d) ==
    /\ pc = "loaded"
    /\ LET r == Object_step_forward(system, d, <<>>)
       IN  /\ system' = r.obj
           /\ calls' = r.calls
    /\ prev' = system
    /\ time_step' = d
    /\ UNCHANGED <<pc, doc, root, result, orbVars>>

Next == Load \/ \E d \in Durations : Step(d)

Spec == Init /\ [][Next]_vars

----------------------------------------------------------------------------
(* The pure-function specification: OrbitalParameters values drawn from    *)
(* bounded sets, step_forward applied to them up to MaxCalls times.        *)

SmaInputs == {-1, 0, 1, 4}
AnomalyInputs == {-400, -10, 0, 45, 350, 400, Mant}
LopInputs == {0, 90}

OrbInputs ==
    {OrbitalParameters(F(a), F(0), l, F(m)) :
        a \in SmaInputs, l \in LopInputs, m \in AnomalyInputs}

TreeIdle ==
    /\ pc = "start" /\ doc = NoTree /\ root = NoTree /\ result = NoTree
    /\ system = NoTree /\ prev = NoTree /\ time_step = 0 /\ calls = <<>>

InitOrb ==
    /\ params0 \in OrbInputs
    /\ params = params0
    /\ steps = <<>>
    /\ TreeIdle

StepParams(d) ==
    /\ Len(steps) < MaxCalls
    /\ params' = OrbitalParameters_step_forward(params, d)
    /\ steps' = Append(steps, d)
    /\ UNCHANGED <<params0, treeVars>>

NextOrb == \E d \in Durations : StepParams(d)

SpecOrb == InitOrb /\ [][NextOrb]_vars

----------------------------------------------------------------------------
(* Claims about OrbitalParameters::step_forward, checked under SpecOrb.    *)

InTurn(a) == ~a.nan /\ 0 <= a.v /\ a.v < FullTurn

\* C1: after step_forward on a value with semi_major_axis > 0, mean_anomaly
\* lies in [0, 360), whatever it was before the call.
C1_AnomalyInRange ==
    (steps # <<>> /\ ~params0.semi_major_axis.nan /\ params0.semi_major_axis.v > 0)
        => InTurn(params.mean_anomaly)

\* C2: with semi_major_axis == 0, step_forward changes no field, for any
\* duration and after any number of calls.
C2_SentinelNoOp ==
    (~params0.semi_major_axis.nan /\ params0.semi_major_axis.v = 0)
        => params = params0

C2_Witness ==
    /\ params0.semi_major_axis = F(0)
    /\ params0.mean_anomaly = F(400)
    /\ steps = <<MaxSecs, 1>>
    /\ params.mean_anomaly = F(400)

\* The remainder of m by 360 with the sign of m.
TurnRemainder(m) == IF m < 0 THEN -((-m) % 360) ELSE m % 360

\* C8, as stated: a zero-duration step_forward leaves mean_anomaly as it was,
\* for any semi_major_axis and any stored mean_anomaly.
C8_ZeroStepNoOp ==
    steps = <<0>> => params.mean_anomaly = params0.mean_anomaly

\* C8, amended: with semi_major_axis >= 0, a zero-duration step_forward sets
\* mean_anomaly to the remainder of the stored value by 360 (sign of the
\* stored value) when semi_major_axis > 0, and changes nothing when
\* semi_major_axis == 0; so it is a no-op exactly when semi_major_axis == 0
\* or the stored mean_anomaly is strictly between -360 and 360.
C8_ZeroStepRemainder ==
    (steps = <<0>> /\ ~params0.semi_major_axis.nan /\ params0.semi_major_axis.v >= 0)
        => /\ params.semi_major_axis = params0.semi_major_axis
           /\ params.eccentricity = params0.eccentricity
           /\ params.longitude_of_periapsis = params0.longitude_of_periapsis
           /\ ~params.mean_anomaly.nan
           /\ params.mean_anomaly.v =
                IF params0.semi_major_axis.v = 0 THEN params0.mean_anomaly.v
                ELSE TurnRemainder(params0.mean_anomaly.v)
           /\ (params = params0) <=>
                \/ params0.semi_major_axis.v = 0
                \/ Abs(params0.mean_anomaly.v) < 360

C8_Witness ==
    /\ steps = <<0>>
    /\ params0.semi_major_axis = F(4)
    /\ params0.mean_anomaly = F(350)
    /\ params.mean_anomaly = F(350)

SameModTurn(a, b) ==
    /\ a.nan = b.nan
    /\ ~a.nan => (a.v - b.v) % 360 = 0

\* C9: step_forward(d1) then step_forward(d2) yields the same mean_anomaly,
\* modulo 360, as one step_forward(d1 + d2) from the same starting value.
C9_Additive ==
    Len(steps) = 2 =>
        SameModTurn(params.mean_anomaly,
                    OrbitalParameters_step_forward(params0, steps[1] + steps[2]).mean_anomaly)

----------------------------------------------------------------------------
(* Claims about the loader and the tree, checked under Spec.               *)

RECURSIVE PreOrder(_)
RECURSIVE PreOrderFrom(_, _)

\* The paths of the nodes below obj's children i.., each subtree in pre-order.
PreOrderFrom(obj, i) ==
    IF i > Len(obj.children) THEN <<>>
    ELSE LET sub == PreOrder(obj.children[i])
         IN  [j \in 1..Len(sub) |-> <<i>> \o sub[j]] \o PreOrderFrom(obj, i + 1)

\* The paths of all nodes of obj: obj itself, then its children's subtrees
\* in sequence order.
PreOrder(obj) == <<<<>>>> \o PreOrderFrom(obj, 1)

RECURSIVE NodeAt(_, _)
NodeAt(obj, path) ==
    IF path = <<>> THEN obj ELSE NodeAt(obj.children[Head(path)], Tail(path))

\* C3: one Object::step_forward(d) on the root calls
\* OrbitalParameters::step_forward(d) exactly once on every node at any depth,
\* with the same d, in pre-order (a node before its children, children in
\* sequence order).
C3_PreOrderBroadcast ==
    (pc = "loaded" /\ prev # NoTree) =>
        LET order == PreOrder(prev)
        IN  /\ Len(calls) = Len(order)
            /\ \A i \in 1..Len(order) :
                 /\ calls[i].node = order[i]
                 /\ calls[i].time_step = time_step
                 /\ NodeAt(system, order[i]).orbital_params =
                      OrbitalParameters_step_forward(
                          NodeAt(prev, order[i]).orbital_params, time_step)
            /\ PreOrder(system) = order

C3_Witness ==
    /\ pc = "loaded"
    /\ time_step = 1
    /\ Len(calls) = 4
    /\ calls[3].node = <<1, 1>>
    /\ calls[4].node = <<2>>
    /\ NodeAt(system, <<1>>).orbital_params.mean_anomaly = F(45)
    /\ NodeAt(prev, <<1>>).orbital_params.mean_anomaly = F(0)
    /\ NodeAt(system, <<2>>).orbital_params.mean_anomaly = F(85)

TypeTokens == {"STAR", "ROCKY", "JOVIAN", "ICE_GIANT"}

IsNumber(value, key) == get(value, key).some /\ get(value, key).v.k = "num"

\* C4: a root object that lacks mass or radius makes load_yaml return a
\* missing-field error and no Object, whatever children it declares.
C4_MissingFieldFails ==
    (pc # "start" /\ root.some
       /\ (~get(root.v[2], "mass").some \/ ~get(root.v[2], "radius").some))
        => /\ pc = "failed"
           /\ system = NoTree
           /\ DOMAIN result = {"ok", "err"}
           /\ ~result.ok
           /\ result.err =
                IF ~(get(root.v[2], "type").some /\ get(root.v[2], "type").v.k = "str")
                THEN root.v[1] \o " : Missing object type"
                ELSE IF ~IsNumber(root.v[2], "mass") THEN "Missing mass"
                ELSE "Missing radius"

C4_Witness ==
    /\ pc = "failed"
    /\ root.some
    /\ get(root.v[2], "type") = Some(Str("STAR"))
    /\ ~get(root.v[2], "mass").some
    /\ get(root.v[2], "parentTo") = Some(SeqV(SolChildren))
    /\ result = Err("Missing mass")

\* The required fields of one definition are all there and well formed.
OwnFieldsOk(value) ==
    /\ get(value, "type").some /\ get(value, "type").v.k = "str"
    /\ get(value, "type").v.s \in TypeTokens
    /\ IsNumber(value, "mass")
    /\ IsNumber(value, "radius")

\* The parentTo entries of a definition, as declared.
Declared(value) ==
    IF get(value, "parentTo").some /\ get(value, "parentTo").v.k = "seq"
    THEN get(value, "parentTo").v.items
    ELSE <<>>

IsNamed(child) ==
    child.k = "map" /\ child.entries # <<>> /\ child.entries[1][1].k = "str"

Parses(child) ==
    IsNamed(child) /\ parse_object(child.entries[1][1].s, child.entries[1][2]).ok

\* The declared entries that parse, in declaration order.
Kept(value) == SelectSeq(Declared(value), Parses)

\* Every loaded node at any depth, paired with the definition it came from.
RECURSIVE Pairs(_, _)
Pairs(obj, value) ==
    {<<obj, value>>} \cup
    UNION {Pairs(obj.children[i], Kept(value)[i].entries[1][2]) :
             i \in {j \in 1..Len(obj.children) : j <= Len(Kept(value))}}

\* C5: the children of every loaded node are exactly its parentTo entries
\* that parse, in declaration order; an entry that fails is dropped, and its
\* failure fails neither its siblings, nor its parent, nor the load.
C5_FailedChildrenDropped ==
    /\ (pc # "start" /\ root.some /\ OwnFieldsOk(root.v[2])) => pc = "loaded"
    /\ pc = "loaded" =>
         \A pr \in Pairs(result.obj, root.v[2]) :
            LET kept == Kept(pr[2])
            IN  /\ Len(pr[1].children) = Len(kept)
                /\ \A i \in 1..Len(kept) :
                     /\ pr[1].children[i].name = kept[i].entries[1][1].s
                     /\ Ok(pr[1].children[i]) =
                          parse_object(kept[i].entries[1][1].s, kept[i].entries[1][2])
                /\ \A i \in 1..Len(Declared(pr[2])) :
                     LET c == Declared(pr[2])[i]
                     IN  Parses(c) <=> (IsNamed(c) /\ OwnFieldsOk(c.entries[1][2]))

C5_Witness ==
    /\ pc = "loaded"
    /\ Len(Declared(root.v[2])) = 6
    /\ Len(result.obj.children) = 2
    /\ result.obj.children[1].name = "Jupiter"
    /\ Len(Declared(Jupiter)) = 2
    /\ Len(result.obj.children[1].children) = 1
    /\ result.obj.children[1].children[1].name = "Europa"
    /\ result.obj.children[2].name = "Neptune"

OrbitKeys == {"semi-major-axis", "eccentricity", "longitude-of-periapsis", "mean-anomaly"}

ZeroOrbit == OrbitalParameters(F(0), F(0), 0, F(0))

\* C6, as stated: a loaded node's orbital state equals the four input values
\* if all four fields are present in its definition, and is all-zero if any
\* of them is missing.
C6_OrbitIffAllPresent ==
    pc = "loaded" =>
        \A pr \in Pairs(result.obj, root.v[2]) :
            IF \A key \in OrbitKeys : get(pr[2], key).some
            THEN /\ \A key \in OrbitKeys : IsNumber(pr[2], key)
                 /\ pr[1].orbital_params =
                      OrbitalParameters(F(get(pr[2], "semi-major-axis").v.n),
                                        F(get(pr[2], "eccentricity").v.n),
                                        get(pr[2], "longitude-of-periapsis").v.n,
                                        F(get(pr[2], "mean-anomaly").v.n))
            ELSE pr[1].orbital_params = ZeroOrbit

\* A number truncated into 0..65535.
Saturated(n) == IF n < 0 THEN 0 ELSE IF n > 65535 THEN 65535 ELSE n

\* C6, amended: a loaded node's semi_major_axis, eccentricity and
\* mean_anomaly equal the input values, and its longitude_of_periapsis the
\* input value converted to u16 (negative becomes 0, above 65535 becomes
\* 65535), if all four fields are present as numbers; if any of the four is
\* missing or is no number, the node gets the all-zero orbital state; the
\* parse succeeds either way.
C6_OrbitIffAllNumbers ==
    /\ (pc # "start" /\ root.some /\ OwnFieldsOk(root.v[2])) => pc = "loaded"
    /\ pc = "loaded" =>
        \A pr \in Pairs(result.obj, root.v[2]) :
            IF \A key \in OrbitKeys : IsNumber(pr[2], key)
            THEN pr[1].orbital_params =
                    OrbitalParameters(F(get(pr[2], "semi-major-axis").v.n),
                                      F(get(pr[2], "eccentricity").v.n),
                                      Saturated(get(pr[2], "longitude-of-periapsis").v.n),
                                      F(get(pr[2], "mean-anomaly").v.n))
            ELSE pr[1].orbital_params = ZeroOrbit

C6_Witness ==
    /\ pc = "loaded"
    /\ IsNumber(root.v[2], "semi-major-axis")
    /\ ~get(root.v[2], "eccentricity").some
    /\ result.obj.orbital_params = ZeroOrbit
    /\ Len(result.obj.children) = 2
    /\ result.obj.children[1].orbital_params = OrbitalParameters(F(4), F(0), 10, F(90))
    /\ result.obj.children[2].orbital_params = OrbitalParameters(F(4), F(0), 65535, F(-10))

\* C7: with a StarSystem key at the top level the root is the first entry of
\* the mapping under it, and the load fails as malformed when that mapping is
\* absent or empty; otherwise the root is the first top-level entry in
\* document order.
C7_RootSelection ==
    (pc # "start" /\ doc.readable /\ from_str_ok(doc.content)) =>
        LET top == doc.content
            nested == get(top, "StarSystem")
        IN  IF nested.some
            THEN IF nested.v.k = "map" /\ nested.v.entries # <<>>
                 THEN /\ root.some
                      /\ root.v[2] = nested.v.entries[1][2]
                      /\ nested.v.entries[1][1].k = "str"
                           => root.v[1] = nested.v.entries[1][1].s
                 ELSE result = Err("Malformed StarSystem definition")
            ELSE top.entries # <<>> =>
                   root = Some(<<top.entries[1][1].s, top.entries[1][2]>>)

RECURSIVE Frame(_)
\* An object with every mean_anomaly of its tree blanked.
Frame(obj) ==
    [obj EXCEPT !.orbital_params.mean_anomaly = F(0),
                !.children = [i \in 1..Len(obj.children) |-> Frame(obj.children[i])]]

\* C10: after any sequence of Object::step_forward calls, the tree differs
\* from the freshly loaded one in mean_anomaly values only.
C10_OnlyAnomalyChanges ==
    pc = "loaded" => Frame(system) = Frame(result.obj)

C10_Witness ==
    /\ pc = "loaded"
    /\ prev # NoTree
    /\ prev # result.obj
    /\ system # prev
    /\ system # result.obj
    /\ Len(system.children) = 2
    /\ system.children[1].atmosphere # {}
    /\ Len(system.children[1].children) = 1

====
